---- MODULE Spec2Model ----
(***************************************************************************)
(* Charter-network 10-year forecast (streamlit_app.py): the projection of  *)
(* every school, the per-year allocation layer (shared specialists, rent   *)
(* smoothing over the Obligated Group) and the home-office P&L.            *)
(*                                                                         *)
(* Number representation.  The script computes in float64 (relative error *)
(* about 1e-16 per operation).  The model computes in decimal fixed point: *)
(*   - a money amount is [dollars, micros], dollars + micros / 10^6 with   *)
(*     0 <= micros < 10^6; products and quotients are formed exactly, on   *)
(*     base-1000 digit sequences, and rounded down once, to 10^-6 dollar;  *)
(*   - rates (cola_rate, salary_growth, benefit_rate, mgmt_fee_pct,        *)
(*     inflation) are in thousandths: 2.5 % is 25;                         *)
(*   - Enrollment is in quarter pupils (np.linspace over 5 points has a    *)
(*     step of a quarter of an integer): 500 pupils is 2000;               *)
(*   - Margin and HO Margin are in units of 1/10000.                       *)
(***************************************************************************)
EXTENDS Integers, Sequences, FiniteSets, TLC

VARIABLES cola_rate, salary_growth, benefit_rate, mgmt_fee_pct,
          og_smoothing_active, launch_cwb, cwb_join_og, cwb_target_enrollment,
          num_psychs, num_coaches, ho_salary_base,
          schools, all_data, final_years, forecast, ho_data, pc

sidebar == <<cola_rate, salary_growth, benefit_rate, mgmt_fee_pct,
             og_smoothing_active, launch_cwb, cwb_join_og,
             cwb_target_enrollment, num_psychs, num_coaches, ho_salary_base>>

vars == <<cola_rate, salary_growth, benefit_rate, mgmt_fee_pct,
          og_smoothing_active, launch_cwb, cwb_join_og, cwb_target_enrollment,
          num_psychs, num_coaches, ho_salary_base,
          schools, all_data, final_years, forecast, ho_data, pc>>

(***************************************************************************)
(* Units                                                                   *)
(***************************************************************************)
\* one unit of a rate is 0.001
RateScale == 1000
\* one unit of Enrollment is a quarter pupil
EnrScale == 4
\* one unit of a margin is 0.0001
Fine == 10000
\* the base of the digit sequences
Base == 1000
\* micros in a dollar
Micro == Base * Base

(***************************************************************************)
(* Exact arithmetic on digit sequences (least significant digit first)     *)
(***************************************************************************)
\* the digits of n >= 0
RECURSIVE Digits(_)
Digits(n) == IF n = 0 THEN <<>> ELSE <<n % Base>> \o Digits(n \div Base)

\* the number of the digits x
RECURSIVE Value(_)
Value(x) == IF x = <<>> THEN 0 ELSE Head(x) + Base * Value(Tail(x))

\* x * m + carry, for 0 <= m <= 2000000
RECURSIVE MulCarry(_, _, _)
MulCarry(x, m, carry) ==
    IF x = <<>> THEN Digits(carry)
    ELSE LET t == Head(x) * m + carry
         IN  <<t % Base>> \o MulCarry(Tail(x), m, t \div Base)

\* x * m ^ i
RECURSIVE MulPow(_, _, _)
MulPow(x, m, i) == IF i = 0 THEN x ELSE MulCarry(MulPow(x, m, i - 1), m, 0)

\* quotient q and remainder r of x by c, for 0 < c <= 2000000
RECURSIVE DivRem(_, _)
DivRem(x, c) ==
    IF x = <<>> THEN [q |-> <<>>, r |-> 0]
    ELSE LET high == DivRem(Tail(x), c)
             t    == high.r * Base + Head(x)
         IN  [q |-> <<t \div c>> \o high.q, r |-> t % c]

\* floor(x / Base ^ k)
Drop(x, k) == SubSeq(x, k + 1, Len(x))

(***************************************************************************)
(* Money                                                                   *)
(***************************************************************************)
\* n dollars
Dollars(n) == [dollars |-> n, micros |-> 0]

\* the digits of the micros of a >= 0
ToDigits(a) ==
    <<a.micros % Base, a.micros \div Base>> \o Digits(a.dollars)

\* the amount of x micros
FromDigits(x) ==
    [dollars |-> Value(Drop(x, 2)),
     micros |-> Value(SubSeq(x, 1, IF Len(x) < 2 THEN Len(x) ELSE 2))]

\* a + b
Plus(a, b) ==
    [dollars |-> a.dollars + b.dollars + (a.micros + b.micros) \div Micro,
     micros |-> (a.micros + b.micros) % Micro]

\* a - b, of either sign
Minus(a, b) ==
    [dollars |-> a.dollars - b.dollars + (a.micros - b.micros) \div Micro,
     micros |-> (a.micros - b.micros) % Micro]

\* a <= b
Leq(a, b) ==
    \/ a.dollars < b.dollars
    \/ a.dollars = b.dollars /\ a.micros <= b.micros

\* a * b / c for an amount a >= 0 and integers b >= 0, c > 0, rounded down to
\* the micro
MulDiv(a, b, c) == FromDigits(DivRem(MulCarry(ToDigits(a), b, 0), c).q)

\* x * (1 + rate)
OnePlus(x, rate) == MulDiv(x, RateScale + rate, RateScale)

\* x * rate
Times(x, rate) == MulDiv(x, rate, RateScale)

\* the digits after the point of r / d (0 <= r < d), k of them, base 10
RECURSIVE Frac(_, _, _)
Frac(r, d, k) ==
    IF k = 0 THEN 0
    ELSE LET q == (r * 10) \div d
             t == Frac((r * 10) % d, d, k - 1)
         IN  q * (10 ^ (k - 1)) + t

\* n / d in units of 1/Fine for amounts n (of either sign) and d >= 1 dollar,
\* taken on their whole dollars and rounded down
Ratio(n, d) ==
    (n.dollars \div d.dollars) * Fine + Frac(n.dollars % d.dollars, d.dollars, 4)

\* value * (1 + rate) ** i for value in whole dollars: the exact product
\* value * (RateScale + rate) ^ i / RateScale ^ i, rounded down to the micro
Compound(value, rate, i) ==
    FromDigits(Drop(MulPow(ToDigits(Dollars(value)), RateScale + rate, i), i))

\* the sum of a sequence of integers
RECURSIVE SumSeq(_)
SumSeq(s) == IF s = <<>> THEN 0 ELSE Head(s) + SumSeq(Tail(s))

\* the sum of a sequence of amounts
RECURSIVE Total(_)
Total(s) == IF s = <<>> THEN Dollars(0) ELSE Plus(Head(s), Total(Tail(s)))

\* the concatenation of a sequence of sequences
RECURSIVE Concat(_)
Concat(ss) == IF ss = <<>> THEN <<>> ELSE Head(ss) \o Concat(Tail(ss))

\* the column f of a table, as a sequence
Column(rows, f) == [k \in 1..Len(rows) |-> rows[k][f]]

(***************************************************************************)
(* Global assumptions (sidebar)                                            *)
(***************************************************************************)
inflation == 20
avg_specialist_salary == 95000

\* the horizon: generate_projection(years=10), range(1, 11)
Years == 10

\* the sidebar values the engine reads, as one record
Globals ==
    [cola_rate |-> cola_rate, salary_growth |-> salary_growth,
     benefit_rate |-> benefit_rate, mgmt_fee_pct |-> mgmt_fee_pct,
     og_smoothing_active |-> og_smoothing_active,
     launch_cwb |-> launch_cwb, cwb_join_og |-> cwb_join_og,
     cwb_target_enrollment |-> cwb_target_enrollment,
     num_psychs |-> num_psychs, num_coaches |-> num_coaches,
     ho_salary_base |-> ho_salary_base]

(***************************************************************************)
(* The logic engine                                                        *)
(***************************************************************************)
\* grow with the exponent running over 1..years instead of 0..years-1
grow_ExponentFromOne(value, rate, years) ==
    [k \in 1..years |-> Compound(value, rate, k)]

\* [value * ((1 + rate) ** i) for i in range(years)]
grow(value, rate, years) == [k \in 1..years |-> Compound(value, rate, k - 1)]

\* linspace with endpoint=False: the step is (stop - start) / num
linspace_NoEndpoint(start, stop, num) ==
    [k \in 1..num |->
        start * (num - 1) + ((k - 1) * (stop - start) * (num - 1)) \div num]

\* np.linspace(start, stop, num), in units of 1/(num - 1)
linspace(start, stop, num) ==
    [k \in 1..num |-> start * (num - 1) + (k - 1) * (stop - start)]

\* School.__init__
School(name, start_enrollment, is_og, is_growth) ==
    [name |-> name, enrollment |-> start_enrollment,
     is_og |-> is_og, is_growth |-> is_growth,
     base_ppr |-> 14000,
     base_teacher_cost |-> 4500,
     base_fixed |-> 250000,
     base_rent |-> IF is_og THEN 550000 ELSE 350000]

\* the Enrollment column of one school
enrollment_curve(s, years, g) ==
    IF s.is_growth
    THEN linspace(100, g.cwb_target_enrollment, 5)
         \o [k \in 1..(years - 5) |-> g.cwb_target_enrollment * EnrScale]
    ELSE [k \in 1..years |-> s.enrollment * EnrScale]

\* School.generate_projection
generate_projection(s, years, g) ==
    LET enr     == enrollment_curve(s, years, g)
        ppr     == grow(s.base_ppr, g.cola_rate, years)
        teacher == grow(s.base_teacher_cost, g.salary_growth, years)
        fixed   == grow(s.base_fixed, inflation, years)
    IN  [k \in 1..years |->
           LET gross == MulDiv(ppr[k], enr[k], EnrScale)
           IN  [Year |-> k,
                School |-> s.name,
                Is_OG |-> s.is_og,
                Enrollment |-> enr[k],
                Gross_Revenue |-> gross,
                Mgmt_Fee |-> Times(gross, g.mgmt_fee_pct),
                Direct_Instruction |->
                    OnePlus(MulDiv(teacher[k], enr[k], EnrScale), g.benefit_rate),
                School_Fixed_Ops |-> fixed[k],
                Base_Rent_Obligation |-> Dollars(s.base_rent)]]

(***************************************************************************)
(* Running the simulation                                                  *)
(***************************************************************************)
legacy_configs ==
    << <<"School A (OG)", 500, TRUE>>, <<"School B (OG)", 480, TRUE>>,
       <<"School C (OG)", 520, TRUE>>, <<"School D (OG)", 450, TRUE>>,
       <<"School E (OG)", 600, TRUE>>, <<"School F (Ext)", 350, FALSE>>,
       <<"School G (Ext)", 380, FALSE>> >>

\* the roster: the legacy schools, then the growth school when launched
Roster(g) ==
    [k \in 1..Len(legacy_configs) |->
        School(legacy_configs[k][1], legacy_configs[k][2],
               legacy_configs[k][3], FALSE)]
    \o (IF g.launch_cwb
        THEN <<School("Growth CWB (New)", 100, g.cwb_join_og, TRUE)>>
        ELSE <<>>)

(***************************************************************************)
(* Inputs explored                                                         *)
(***************************************************************************)
\* the number of equal parts a widget's range is cut into
Grid == 2

\* the largest number of numeric widgets moved off their default in one run
Moved == 2

\* the values of a widget with range lo..hi and the given step that are
\* explored: its default, and the Grid + 1 cut points of its range, each taken
\* down to a value the widget can show
Samples(lo, hi, step, default) ==
    {default} \cup
    {lo + step * ((k * ((hi - lo) \div step)) \div Grid) : k \in 0..Grid}

\* the value each widget shows before the user touches it
Defaults ==
    [cola_rate |-> 25, salary_growth |-> 30, benefit_rate |-> 250,
     mgmt_fee_pct |-> 150, og_smoothing_active |-> TRUE,
     launch_cwb |-> FALSE, cwb_join_og |-> FALSE,
     cwb_target_enrollment |-> 500, num_psychs |-> 2, num_coaches |-> 1,
     ho_salary_base |-> 1200000]

\* "Annual Revenue COLA %": 0.0 to 5.0 by 0.1
ColaRates == Samples(0, 50, 1, Defaults.cola_rate)
\* "Annual Salary Step %": 0.0 to 5.0 by 0.1
SalarySteps == Samples(0, 50, 1, Defaults.salary_growth)
\* "Benefit Load %": 20 to 40 by 1
BenefitLoads == Samples(200, 400, 10, Defaults.benefit_rate)
\* "Management Fee %": 10.0 to 20.0 by 0.5
MgmtFees == Samples(100, 200, 5, Defaults.mgmt_fee_pct)
\* "CWB Target Enrollment (Year 5)": 100 to 2000
TargetEnrollments == Samples(100, 2000, 1, Defaults.cwb_target_enrollment)
\* "# of Shared Psychologists": 0 to 10
PsychCounts == Samples(0, 10, 1, Defaults.num_psychs)
\* "# of Shared Math Coaches": 0 to 10
CoachCounts == Samples(0, 10, 1, Defaults.num_coaches)
\* "Total HO Salaries (CEO/Fin/HR)": 500000 to 5000000
HoSalaries == Samples(500000, 5000000, 1, Defaults.ho_salary_base)

\* the numeric widgets
Numeric ==
    {"cola_rate", "salary_growth", "benefit_rate", "mgmt_fee_pct",
     "cwb_target_enrollment", "num_psychs", "num_coaches", "ho_salary_base"}

\* the numeric widgets of the sidebar g that are off their default
OffDefault(g) == {w \in Numeric : g[w] # Defaults[w]}

\* the script starts with the sidebar as the user left it: the three
\* checkboxes in any state, at most Moved numeric widgets off their default
Init ==
    /\ cola_rate \in ColaRates
    /\ salary_growth \in SalarySteps
    /\ benefit_rate \in BenefitLoads
    /\ mgmt_fee_pct \in MgmtFees
    /\ og_smoothing_active \in BOOLEAN
    /\ launch_cwb \in BOOLEAN
    /\ cwb_join_og \in BOOLEAN
    /\ cwb_target_enrollment \in TargetEnrollments
    /\ num_psychs \in PsychCounts
    /\ num_coaches \in CoachCounts
    /\ ho_salary_base \in HoSalaries
    /\ Cardinality(OffDefault(Globals)) <= Moved
    /\ schools = <<>>
    /\ all_data = <<>>
    /\ final_years = <<>>
    /\ forecast = <<>>
    /\ ho_data = <<>>
    /\ pc = "roster"

\* lines 85-97: the schools list
BuildRoster ==
    /\ pc = "roster"
    /\ schools' = Roster(Globals)
    /\ pc' = "project"
    /\ UNCHANGED <<sidebar, all_data, final_years, forecast, ho_data>>

\* lines 100-101, one iteration: all_data grows by one school's projection
ProjectSchool ==
    /\ pc = "project"
    /\ LET n == Len(all_data) \div Years + 1
       IN  /\ n <= Len(schools)
           /\ all_data' = all_data \o generate_projection(schools[n], Years, Globals)
           /\ pc' = IF n = Len(schools) THEN "allocate" ELSE "project"
    /\ UNCHANGED <<sidebar, schools, final_years, forecast, ho_data>>

(***************************************************************************)
(* The allocation layer                                                    *)
(***************************************************************************)
\* a row with column col set to v (the column is added when it is missing)
Put(row, col, v) ==
    [f \in (DOMAIN row) \cup {col} |-> IF f = col THEN v ELSE row[f]]

\* df[col] = vals
SetColumn(rows, col, vals) ==
    [k \in 1..Len(rows) |-> Put(rows[k], col, vals[k])]

\* df.loc[mask, col] = vals: rows outside the mask keep what they have, and
\* have no value in a column this assignment creates
LocSet(rows, mask, col, vals) ==
    [k \in 1..Len(rows) |-> IF mask[k] THEN Put(rows[k], col, vals[k]) ELSE rows[k]]

\* df.loc[mask, col].sum()
LocSum(rows, mask, col) ==
    SumSeq([k \in 1..Len(rows) |-> IF mask[k] THEN rows[k][col] ELSE 0])

\* df.loc[mask, col].sum() of a money column
LocTotal(rows, mask, col) ==
    Total([k \in 1..Len(rows) |-> IF mask[k] THEN rows[k][col] ELSE Dollars(0)])

\* all_data[all_data["Year"] == year].copy()
YearRows(data, year) == SelectSeq(data, LAMBDA r : r.Year = year)

\* line 111
specialist_salary_inflated(year, g) ==
    Compound(avg_specialist_salary, g.salary_growth, year - 1)

\* line 112
total_specialist_cost(year, g) ==
    OnePlus(MulDiv(specialist_salary_inflated(year, g),
                   g.num_psychs + g.num_coaches, 1),
            g.benefit_rate)

\* line 113
total_enrollment(rows) == SumSeq(Column(rows, "Enrollment"))

\* the shares taken over the enrollment of the Obligated Group only
SpecialistAllocation_PooledShare(rows, year, g) ==
    SetColumn(rows, "Allocated_Staff_Costs",
        [k \in 1..Len(rows) |->
            MulDiv(total_specialist_cost(year, g), rows[k].Enrollment,
                   SumSeq([j \in 1..Len(rows) |->
                       IF rows[j].Is_OG THEN rows[j].Enrollment ELSE 0]))])

\* lines 110-114: Specialist Allocation
SpecialistAllocation(rows, year, g) ==
    SetColumn(rows, "Allocated_Staff_Costs",
        [k \in 1..Len(rows) |->
            MulDiv(total_specialist_cost(year, g), rows[k].Enrollment,
                   total_enrollment(rows))])

\* line 117
og_mask(rows) == [k \in 1..Len(rows) |-> rows[k].Is_OG = TRUE]

Not(mask) == [k \in 1..Len(mask) |-> ~mask[k]]

\* year_slice[og_mask].shape[0]
Count(mask) == Cardinality({k \in 1..Len(mask) : mask[k]})

\* the pooled debt divided by the enrollment of all schools
smoothed_rate_AllEnrollment(rows) ==
    MulDiv(LocTotal(rows, og_mask(rows), "Base_Rent_Obligation"), EnrScale,
           total_enrollment(rows))

\* lines 120-122, in dollars per pupil
smoothed_rate(rows) ==
    LET total_og_debt == LocTotal(rows, og_mask(rows), "Base_Rent_Obligation")
        total_og_enrollment == LocSum(rows, og_mask(rows), "Enrollment")
    IN  MulDiv(total_og_debt, EnrScale, total_og_enrollment)

\* the smoothed branch taken whenever the group is non-empty, whatever the
\* checkbox says
PooledRent_IgnoreFlag(rows, g) ==
    LET og   == og_mask(rows)
        rate == smoothed_rate(rows)
        r1   == LocSet(rows, og, "Final_Rent",
                    [k \in 1..Len(rows) |-> MulDiv(rate, rows[k].Enrollment, EnrScale)])
    IN  IF Count(og) > 0
        THEN LocSet(r1, og, "Rent_Note", [k \in 1..Len(rows) |-> "Smoothed"])
        ELSE rows

\* lines 119-127: the rent of the Obligated Group
PooledRent(rows, g) ==
    LET og   == og_mask(rows)
        base == Column(rows, "Base_Rent_Obligation")
    IN  IF g.og_smoothing_active /\ Count(og) > 0
        THEN LET rate == smoothed_rate(rows)
                 r1 == LocSet(rows, og, "Final_Rent",
                           [k \in 1..Len(rows) |->
                               MulDiv(rate, rows[k].Enrollment, EnrScale)])
             IN  LocSet(r1, og, "Rent_Note", [k \in 1..Len(rows) |-> "Smoothed"])
        ELSE LET r1 == LocSet(rows, og, "Final_Rent", base)
             IN  LocSet(r1, og, "Rent_Note", [k \in 1..Len(rows) |-> "Fixed"])

\* the smoothed rate charged to the schools outside the group as well
LeaseRent_Smoothed(rows) ==
    LET out  == Not(og_mask(rows))
        rate == smoothed_rate(rows)
        r1   == LocSet(rows, out, "Final_Rent",
                    [k \in 1..Len(rows) |-> MulDiv(rate, rows[k].Enrollment, EnrScale)])
    IN  LocSet(r1, out, "Rent_Note", [k \in 1..Len(rows) |-> "Lease"])

\* lines 129-130: the rent of the schools outside the group
LeaseRent(rows) ==
    LET out == Not(og_mask(rows))
        r1  == LocSet(rows, out, "Final_Rent", Column(rows, "Base_Rent_Obligation"))
    IN  LocSet(r1, out, "Rent_Note", [k \in 1..Len(rows) |-> "Lease"])

\* lines 117-130: Rent Smoothing
RentSmoothing(rows, g) == LeaseRent(PooledRent(rows, g))

\* lines 132-139
NetIncome(rows) ==
    [k \in 1..Len(rows) |->
        LET r == rows[k]
            total == Total(<<r.Mgmt_Fee, r.Direct_Instruction, r.School_Fixed_Ops,
                             r.Allocated_Staff_Costs, r.Final_Rent>>)
            net == Minus(r.Gross_Revenue, total)
        IN  Put(Put(Put(r, "Total_Expenses", total), "Net_Income", net),
                "Margin", Ratio(net, r.Gross_Revenue))]

\* lines 108-139: the augmented rows of one year
year_slice(data, year, g) ==
    NetIncome(RentSmoothing(SpecialistAllocation(YearRows(data, year), year, g), g))

\* every entry of final_years is the one slice object, rewritten in each iteration
allocation_step_SharedSlice(done, data, year, g) ==
    [k \in 1..(Len(done) + 1) |-> year_slice(data, year, g)]

\* lines 108-141: one iteration of the allocation loop
allocation_step(done, data, year, g) == Append(done, year_slice(data, year, g))

\* the last slice concatenated a second time
concat_final_years_LastTwice(done) == Concat(done) \o done[Len(done)]

\* line 143: pd.concat(final_years)
concat_final_years(done) == Concat(done)

(***************************************************************************)
(* Home office P&L                                                         *)
(***************************************************************************)
\* the fee revenue taken from the Total Expenses column
ho_row_ExpensesAsFees(table, year, g) ==
    LET ys == YearRows(table, year)
        total_fees == Total(Column(ys, "Total_Expenses"))
        core_cost == OnePlus(Compound(g.ho_salary_base, g.salary_growth, year - 1),
                             g.benefit_rate)
        net_ho == Minus(total_fees, core_cost)
    IN  [Year |-> year,
         Total_Fee_Revenue |-> total_fees,
         Core_HO_Expense |-> core_cost,
         HO_Net_Income |-> net_ho,
         HO_Margin |-> Ratio(net_ho, total_fees)]

\* lines 148-158: one row of ho_data
ho_row(table, year, g) ==
    LET ys == YearRows(table, year)
        total_fees == Total(Column(ys, "Mgmt_Fee"))
        core_cost == OnePlus(Compound(g.ho_salary_base, g.salary_growth, year - 1),
                             g.benefit_rate)
        net_ho == Minus(total_fees, core_cost)
    IN  [Year |-> year,
         Total_Fee_Revenue |-> total_fees,
         Core_HO_Expense |-> core_cost,
         HO_Net_Income |-> net_ho,
         HO_Margin |-> Ratio(net_ho, total_fees)]

(***************************************************************************)
(* The run of the script below the sidebar                                 *)
(***************************************************************************)
\* lines 107-141, one iteration
AllocateYear ==
    /\ pc = "allocate"
    /\ LET year == Len(final_years) + 1
       IN  /\ year <= Years
           /\ final_years' = allocation_step(final_years, all_data, year, Globals)
           /\ pc' = IF year = Years THEN "concat" ELSE "allocate"
    /\ UNCHANGED <<sidebar, schools, all_data, forecast, ho_data>>

\* line 143
ConcatForecast ==
    /\ pc = "concat"
    /\ forecast' = concat_final_years(final_years)
    /\ pc' = "home_office"
    /\ UNCHANGED <<sidebar, schools, all_data, final_years, ho_data>>

\* lines 147-158, one iteration; line 160 after the last
HomeOfficeYear ==
    /\ pc = "home_office"
    /\ LET year == Len(ho_data) + 1
       IN  /\ year <= Years
           /\ ho_data' = Append(ho_data, ho_row(forecast, year, Globals))
           /\ pc' = IF year = Years THEN "done" ELSE "home_office"
    /\ UNCHANGED <<sidebar, schools, all_data, final_years, forecast>>

Next ==
    \/ BuildRoster
    \/ ProjectSchool
    \/ AllocateYear
    \/ ConcatForecast
    \/ HomeOfficeYear

Spec == Init /\ [][Next]_vars

(***************************************************************************)
(* Properties                                                              *)
(***************************************************************************)
\* a and b agree within 1e-6 of b: |a - b| <= b / 10^6, the tolerance taken
\* on the whole dollars of b
Within(a, b) ==
    LET d == IF Leq(b, a) THEN Minus(a, b) ELSE Minus(b, a)
    IN  Leq(d, [dollars |-> b.dollars \div Micro, micros |-> b.dollars % Micro])

\* the rows of school name in a table, in table order
SchoolRows(table, name) == SelectSeq(table, LAMBDA r : r.School = name)

\* the schools whose projection is in all_data
Projected == 1..(Len(all_data) \div Years)

\* C1: in every allocated year with a positive total enrollment, the
\* Allocated Staff Costs of all the schools of that year add up to that year's
\* total specialist cost (headcount x compounded salary x (1 + benefit load)),
\* within a relative 1e-6.
C1_SharedStaffConserved ==
    \A y \in DOMAIN final_years :
        LET rows == final_years[y]
        IN  total_enrollment(rows) > 0 =>
                Within(Total(Column(rows, "Allocated_Staff_Costs")),
                       total_specialist_cost(y, Globals))

\* C1 witness: a growth school on its ramp, the default three specialists, a
\* year after the first allocated with a positive cost spread over eight
\* schools.
C1_Witness ==
    /\ launch_cwb /\ cwb_target_enrollment > 100
    /\ num_psychs + num_coaches = 3
    /\ Len(final_years) >= 3
    /\ Len(final_years[3]) = 8
    /\ \A k \in 1..8 : final_years[3][k].Allocated_Staff_Costs.dollars > 0
    /\ total_specialist_cost(3, Globals).dollars > 0

\* C2: in every allocated year, when smoothing is active and the group is not
\* empty, the Final Rent of the pooled schools adds up to their Base Rent
\* Obligation, within a relative 1e-6.
C2_PooledRentConserved ==
    \A y \in DOMAIN final_years :
        LET rows == final_years[y]
            og   == og_mask(rows)
        IN  (og_smoothing_active /\ Count(og) > 0) =>
                Within(LocTotal(rows, og, "Final_Rent"),
                       LocTotal(rows, og, "Base_Rent_Obligation"))

\* C2 witness: the growth school has joined the group and is on its ramp; its
\* rent in year 2 is not its own obligation and differs from its rent in year 3.
C2_Witness ==
    /\ og_smoothing_active /\ launch_cwb /\ cwb_join_og
    /\ Len(final_years) = Years
    /\ LET r2 == final_years[2][8]
           r3 == final_years[3][8]
       IN  /\ r2.Is_OG /\ r2.Enrollment # r3.Enrollment
           /\ r2.Final_Rent # r2.Base_Rent_Obligation
           /\ r2.Final_Rent # r3.Final_Rent

\* C4: with smoothing off, every pooled row of every allocated year pays its own
\* Base Rent Obligation and is noted "Fixed".
C4_SmoothingOffIsFixed ==
    ~og_smoothing_active =>
        \A y \in DOMAIN final_years : \A k \in DOMAIN final_years[y] :
            LET r == final_years[y][k]
            IN  r.Is_OG =>
                    /\ "Final_Rent" \in DOMAIN r
                    /\ r.Final_Rent = r.Base_Rent_Obligation
                    /\ "Rent_Note" \in DOMAIN r
                    /\ r.Rent_Note = "Fixed"

\* C4 witness: smoothing off, the growth school in the group, all ten years
\* allocated.
C4_Witness ==
    /\ ~og_smoothing_active /\ launch_cwb /\ cwb_join_og
    /\ Len(final_years) = Years
    /\ final_years[Years][8].Is_OG
    /\ final_years[Years][8].Rent_Note = "Fixed"

\* C5: every non-pooled row of every allocated year pays its own Base Rent
\* Obligation, which is the one its projection gave it, and is noted "Lease",
\* whatever the smoothing flag and the group.
C5_NonPooledLease ==
    \A y \in DOMAIN final_years : \A k \in DOMAIN final_years[y] :
        LET r == final_years[y][k]
            before == SelectSeq(all_data, LAMBDA d : d.Year = y)[k]
        IN  ~r.Is_OG =>
                /\ "Final_Rent" \in DOMAIN r
                /\ r.Final_Rent = r.Base_Rent_Obligation
                /\ r.Base_Rent_Obligation = before.Base_Rent_Obligation
                /\ "Rent_Note" \in DOMAIN r
                /\ r.Rent_Note = "Lease"

\* C5 witness: smoothing on, a growth school outside the group on its ramp
\* beside five smoothed schools.
C5_Witness ==
    /\ og_smoothing_active /\ launch_cwb /\ ~cwb_join_og
    /\ cwb_target_enrollment > 100
    /\ Len(final_years) >= 2
    /\ ~final_years[2][8].Is_OG
    /\ final_years[2][8].Rent_Note = "Lease"
    /\ final_years[2][1].Rent_Note = "Smoothed"

\* C6: a projected growth school has ten rows, 100 pupils in year 1, the target
\* in year 5 and in each of years 6..10, and equal steps over years 1..5; any
\* other projected school has ten rows, all at its start enrollment.
C6_RampBoundary ==
    \A n \in Projected :
        LET s   == schools[n]
            enr == Column(SchoolRows(all_data, s.name), "Enrollment")
            T   == cwb_target_enrollment
        IN  /\ Len(enr) = 10
            /\ s.is_growth =>
                  /\ enr[1] = 100 * EnrScale
                  /\ enr[5] = T * EnrScale
                  /\ \A k \in 6..10 : enr[k] = T * EnrScale
                  /\ \A k \in 1..3 : enr[k + 1] - enr[k] = enr[k + 2] - enr[k + 1]
            /\ ~s.is_growth => \A k \in 1..10 : enr[k] = s.enrollment * EnrScale

\* C6 witness: the growth school is projected with a target that is not 100
\* plus a multiple of 4, so the ramp passes through fractions of a pupil.
C6_Witness ==
    /\ launch_cwb /\ (cwb_target_enrollment - 100) % EnrScale # 0
    /\ Len(all_data) = 8 * Years
    /\ all_data[7 * Years + 2].Enrollment % EnrScale # 0

\* C7: the slice of every allocated year is the one the loop body gives when it
\* is run on that year's rows alone, with nothing allocated before it; so a
\* later iteration changes no earlier slice.
C7_YearIndependent ==
    \A y \in DOMAIN final_years :
        LET alone == SelectSeq(all_data, LAMBDA d : d.Year = y)
        IN  allocation_step(<<>>, alone, y, Globals) = <<final_years[y]>>

\* C7 witness: all ten years allocated for a roster whose enrollment and
\* specialist cost change from year to year, the first slice unlike the last.
C7_Witness ==
    /\ launch_cwb /\ cwb_target_enrollment > 100
    /\ salary_growth > 0 /\ num_psychs + num_coaches > 0
    /\ Len(final_years) = Years
    /\ final_years[1][1].Allocated_Staff_Costs
         # final_years[Years][1].Allocated_Staff_Costs

\* C8: once the projections are made, the per-pupil revenue curve of every
\* school starts at the base value and never decreases from a year to the next
\* (the COLA rate is never negative), and it is the curve the school's Gross
\* Revenue is made of; the Base Rent Obligation of a school is the same in all
\* its rows.
C8_MonotonicCompounding ==
    /\ cola_rate >= 0
    /\ (pc = "allocate" /\ final_years = <<>>) =>
          \A n \in DOMAIN schools :
              LET rows  == SchoolRows(all_data, schools[n].name)
                  curve == grow(schools[n].base_ppr, cola_rate, Years)
              IN  /\ curve[1] = Dollars(schools[n].base_ppr)
                  /\ \A k \in 1..(Years - 1) : Leq(curve[k], curve[k + 1])
                  /\ Len(rows) = Years
                  /\ \A k \in DOMAIN rows :
                        /\ rows[k].Gross_Revenue
                              = MulDiv(curve[k], rows[k].Enrollment, EnrScale)
                        /\ rows[k].Base_Rent_Obligation
                              = Dollars(schools[n].base_rent)

\* C8 witness: a positive COLA, the projections made, the first school's revenue
\* grown from year 1 to year 10 at a constant enrollment.
C8_Witness ==
    /\ cola_rate > 0
    /\ pc = "allocate" /\ final_years = <<>>
    /\ all_data[1].Enrollment = all_data[Years].Enrollment
    /\ ~Leq(all_data[Years].Gross_Revenue, all_data[1].Gross_Revenue)

\* the note the three-way classification gives a row of a year's slice
NoteOf(r, rows) ==
    IF ~r.Is_OG THEN "Lease"
    ELSE IF og_smoothing_active /\ Count(og_mask(rows)) > 0 THEN "Smoothed"
    ELSE "Fixed"

\* C9: when the run is over, the forecast holds exactly one row for every year
\* 1..10 and every school of the roster, every row has a Final Rent and one
\* Rent Note, and the note is "Lease" for a school outside the group,
\* "Smoothed" for a pooled school when smoothing is on and the group is not
\* empty, "Fixed" for a pooled school otherwise.
C9_CompleteClassification ==
    pc = "done" =>
        /\ Len(forecast) = Years * Len(schools)
        /\ \A y \in 1..Years : \A n \in DOMAIN schools :
              Cardinality({k \in DOMAIN forecast :
                  /\ forecast[k].Year = y
                  /\ forecast[k].School = schools[n].name}) = 1
        /\ \A k \in DOMAIN forecast :
              LET r == forecast[k]
              IN  /\ "Final_Rent" \in DOMAIN r
                  /\ r.Final_Rent.dollars >= 0
                  /\ "Rent_Note" \in DOMAIN r
                  /\ r.Rent_Note = NoteOf(r, YearRows(forecast, r.Year))

\* C9 witness: a finished run with the three kinds of row met over the inputs:
\* here smoothing on, the growth school outside the group.
C9_Witness ==
    /\ pc = "done"
    /\ og_smoothing_active /\ launch_cwb /\ ~cwb_join_og
    /\ Len(forecast) = 8 * Years
    /\ forecast[1].Rent_Note = "Smoothed"
    /\ forecast[8].Rent_Note = "Lease"

\* the sidebar with the four inputs of C10 set to fixed values
Reference ==
    [Globals EXCEPT !.og_smoothing_active = TRUE, !.cwb_join_og = FALSE,
                    !.num_psychs = 0, !.num_coaches = 0]

\* the forecast of a whole run under the sidebar g
ForecastOf(g) ==
    LET roster == Roster(g)
        data == Concat([n \in 1..Len(roster) |->
                           generate_projection(roster[n], Years, g)])
    IN  concat_final_years([y \in 1..Years |-> year_slice(data, y, g)])

\* the two tables of a whole run under the sidebar g
RunOf(g) ==
    LET table == ForecastOf(g)
    IN  [forecast |-> table,
         ho_data |-> [y \in 1..Years |-> ho_row(table, y, g)]]

\* the fee columns of a forecast, keyed by year and school
FeeColumns(table) ==
    [k \in 1..Len(table) |->
        <<table[k].Year, table[k].School, table[k].Gross_Revenue,
          table[k].Mgmt_Fee>>]

\* C10: the home-office table of a finished run, and the Gross Revenue and Mgmt
\* Fee of every row, are those of the run that has the same sidebar but for
\* smoothing on, the growth school outside the group and no shared specialist:
\* none of them depends on the smoothing flag, on cwb_join_og or on the numbers
\* of psychologists and coaches.
C10_OfficeTableIndependent ==
    pc = "done" =>
        LET ref == RunOf(Reference)
        IN  /\ ho_data = ref.ho_data
            /\ FeeColumns(forecast) = FeeColumns(ref.forecast)

\* C10 witness: a finished run that differs from its reference run in all four
\* inputs and in the rent and staff cost of its first row.
C10_Witness ==
    /\ pc = "done"
    /\ ~og_smoothing_active /\ launch_cwb /\ cwb_join_og
    /\ num_psychs > 0 /\ num_coaches > 0
    /\ Len(ho_data) = Years
    /\ LET first == Head(ForecastOf(Reference))
       IN  /\ forecast[1].Final_Rent # first.Final_Rent
           /\ forecast[1].Allocated_Staff_Costs # first.Allocated_Staff_Costs
====
